---- MODULE Spec2Model ----
(***************************************************************************)
(* Session lifecycle of the sandman GPU session orchestrator:              *)
(* session.Service (CreateSession, DeleteSession, DeleteAllSessions,       *)
(* CleanupExpiredSessions) over gpu.Manager, docker.Client with its        *)
(* PortManager, the SQLite session store and the TTL watcher.              *)
(* Every call into a pool, the container engine or the store is one step,  *)
(* so request goroutines and the watcher goroutine interleave at exactly   *)
(* the points where the Go code takes or drops a lock or talks to an       *)
(* external service.                                                       *)
(***************************************************************************)
EXTENDS Integers, FiniteSets, Sequences, TLC

\* ---------------------------------------------------------------- bounds
\* CreateSession calls over a run (each draws one fresh session/container id)
MaxSessions == 3
\* injected failures of the container engine or the store over a run
MaxFaults == 1
\* containers destroyed from outside the orchestrator over a run
MaxExternal == 1
\* advances of the wall clock over a run
MaxTicks == 1
\* CreateSession calls plus environment events (failures, external removals,
\* clock advances) over a run
MaxWork == 3
\* calls and sweeps in flight at the same time
MaxInFlight == 2
\* size of the SSH host-port range
NumPorts == 2
\* CreateSession calls plus environment events over a run of the sequential
\* caller (one more than MaxWork: its runs reach an exhausted port range), and
\* the events after which a sweep's DELETE may still fail
MaxWorkSeq == 4

\* ------------------------------------------------------ program constants
PortStart == 10000
IPRangeStart == 100
IPRangeEnd == 254
DefaultTTLMinutes == 60
\* time.Duration counts nanoseconds in a signed 64-bit integer and a minute is
\* 6 * 10^10 of them: 2^63 ns are 153722867 whole minutes (and 16854775808 ns),
\* so minutes * time.Minute is exact up to this many minutes
MaxDurationMinutes == 153722867
\* 2^64 ns, by which the product wraps, are 307445734 whole minutes (and
\* 33709551616 ns)
WrapMinutes == 307445734

\* the profile CreateSession asks for when the request names none
DefaultProfile == "3g.20gb"
\* the profile of the MIG instances nvidia-smi lists on this host
InstanceProfile == "1g.10gb"
\* an instance UUID nvidia-smi does not list
UnknownUUID == "MIG-x"

Users == {"u1", "u2"}
GPUs == {"MIG-a", "MIG-b"}
\* request goroutines that run concurrently and forget their answer
Workers == {"w1", "w2"}
\* a caller that issues its calls one after the other and keeps the last answer
Client == "cli"
\* the TTL watcher goroutine
Reaper == "ttl"
Callers == Workers \cup {Client}
Procs == Callers \cup {Reaper}
TTLChoices == {0}

Ports == PortStart .. (PortStart + NumPorts - 1)
IPRange == IPRangeStart .. IPRangeEnd
SessionIds == 1 .. MaxSessions

\* the profile of each discovered MIG instance
ProfileOf(g) == InstanceProfile

\* what a request may carry as mig_profile and as mig_instance_uuid
RequestProfiles == {"", InstanceProfile, DefaultProfile}
RequestUUIDs == {""} \cup GPUs \cup {UnknownUUID}

\* what a POST /sessions body may carry as user_id ("" also stands for a body
\* without the field) and as ttl_minutes
RequestUsers == Users \cup {""}
RequestTTLs == {-5, 0, 45, MaxDurationMinutes + 1}

VARIABLES
  migInstances,  \* gpu.Manager.migInstances: UUID -> [InUse, CreatedBy]
  usedPorts,     \* PortManager.usedPorts
  containers,    \* the container engine's containers
  workspaces,    \* the directories under the workspace root, one per user
  sessions,      \* rows of the sessions table
  nextId,        \* next fresh id (uuid.New / engine container id)
  now,           \* wall clock, in minutes
  faults,        \* injected failures so far
  externals,     \* external container removals so far
  pc,            \* where each goroutine stands
  loc,           \* each goroutine's local variables
  images,        \* the engine's image tags gpu-workspace-<user>: the key built in
  watcher        \* the TTLWatcher: its fields and its watch goroutines

vars == <<migInstances, usedPorts, containers, workspaces, sessions, nextId, now, faults,
          externals, pc, loc, images, watcher>>
shared == <<migInstances, usedPorts, containers, sessions>>

NoSession ==
  [ID |-> 0, UserID |-> "", ContainerID |-> 0, ContainerIP |-> 0, SSHPort |-> 0,
   GPUUUID |-> "", MIGProfile |-> "", TTLMinutes |-> 0, CreatedAt |-> 0, ExpiresAt |-> 0]

NoContainer ==
  [ID |-> 0, Name |-> "", IP |-> 0, HostPort |-> 0, Running |-> FALSE, Key |-> 0]

\* the watcher as main leaves it: NewTTLWatcher, then Start. running and
\* closed are the fields running and stopChan (closed or not), sweepers counts
\* the goroutines in watch(), last is the most recent call, and panicked says
\* that a call has panicked
StartedWatcher ==
  [running |-> TRUE, closed |-> FALSE, sweepers |-> 1, last |-> "start", panicked |-> FALSE]

\* a user's workspace directory: whether it exists, its shell init file
\* (.bashrc: "none", "default" as the orchestrator writes it, "user" once the
\* user has changed it) and whether the user has put files of their own there
NoWorkspace == [exists |-> FALSE, bashrc |-> "none", files |-> FALSE]

NoAnswer == [op |-> "none", id |-> 0, res |-> ""]

NoLoc ==
  [op |-> "none", user |-> "", reqttl |-> 0, ttl |-> 0, reqprofile |-> "", profile |-> "",
   uuid |-> "", id |-> 0,
   gpu |-> "", ip |-> 0, port |-> 0, cid |-> 0, rport |-> 0, cur |-> NoSession,
   queue |-> {}, res |-> "", snap |-> <<>>, count |-> 0, prev |-> NoAnswer]

Min(S) == CHOOSE x \in S : \A y \in S : x <= y

SessionIDsOf(S) == {r.ID : r \in S}

\* ------------------------------------------------------------- the store
\* SELECT ... WHERE id = ?  (sql.ErrNoRows when absent)
GetSession(id) ==
  IF \E r \in sessions : r.ID = id
    THEN CHOOSE r \in sessions : r.ID = id
    ELSE NoSession

\* a lookup by user that never finds a row
GetSessionByUserIDNoRows(u) == NoSession

\* SELECT ... WHERE user_id = ?
GetSessionByUserID(u) ==
  IF \E r \in sessions : r.UserID = u
    THEN CHOOSE r \in sessions : r.UserID = u
    ELSE NoSession

\* a sessions table without the UNIQUE constraint on user_id
InsertAllowedNoUnique(S, r) == \A q \in S : q.ID # r.ID

\* INSERT is accepted iff id (PRIMARY KEY) and user_id (UNIQUE) are both new
InsertAllowed(S, r) ==
  /\ \A q \in S : q.ID # r.ID
  /\ \A q \in S : q.UserID # r.UserID

\* a DELETE that removes nothing
StoreDeleteNothing(S, id) == S

\* DELETE FROM sessions WHERE id = ?  (no error when no row matches)
StoreDelete(S, id) == {r \in S : r.ID # id}

\* SELECT ... WHERE expires_at < datetime('now')
ListExpiredSessions == {r \in sessions : r.ExpiresAt < now}

\* SELECT ... ORDER BY created_at DESC : the rows that may come first
NewestOf(S) == {r \in S : \A q \in S : q.CreatedAt <= r.CreatedAt}

\* ---------------------------------------------------------- the GPU pool
\* an AllocateMIG that takes any free instance, whatever its profile
AllocateMIGAnyProfile(profile) == {g \in GPUs : ~migInstances[g].InUse}

\* AllocateMIG: the free instances of the profile (map iteration picks any)
AllocateMIGCandidates(profile) ==
  {g \in GPUs : ~migInstances[g].InUse /\ ProfileOf(g) = profile}

\* an AllocateMIGByUUID that hands out an instance whether or not it is in use
AllocateMIGByUUIDAnyState(uuid) == {g \in GPUs : g = uuid}

\* AllocateMIGByUUID: the instance of that UUID if it is known and free
AllocateMIGByUUID(uuid) == {g \in GPUs : g = uuid /\ ~migInstances[g].InUse}

\* an allocation that marks the instance in use without recording the holder
MarkInUseNoOwner(m, g, u) == [m EXCEPT ![g] = [InUse |-> TRUE, CreatedBy |-> ""]]

MarkInUse(m, g, u) == [m EXCEPT ![g] = [InUse |-> TRUE, CreatedBy |-> u]]

\* a ReleaseMIG that leaves alone an instance held by another user
ReleaseMIGOwnerOnly(m, g, u) ==
  IF m[g].InUse /\ m[g].CreatedBy = u
    THEN [m EXCEPT ![g] = [InUse |-> FALSE, CreatedBy |-> ""]]
    ELSE m

\* ReleaseMIG: already free -> nothing; held, by u or by anyone else -> freed
ReleaseMIG(m, g, u) ==
  IF ~m[g].InUse THEN m
  ELSE [m EXCEPT ![g] = [InUse |-> FALSE, CreatedBy |-> ""]]

\* --------------------------------------------------------- the port pool
\* an AllocatePort that hands out the first port of the range, used or not
AllocatePortAnyState(used) == PortStart

\* an AllocatePort that hands out the highest port that is not used
AllocatePortHighest(used) ==
  IF Ports \subseteq used THEN 0
  ELSE CHOOSE x \in Ports \ used : \A y \in Ports \ used : y <= x

\* AllocatePort: the lowest port of the range that is not used, 0 if none
AllocatePort(used) ==
  IF Ports \subseteq used THEN 0 ELSE Min(Ports \ used)

ReleasePort(used, p) == used \ {p}

\* ---------------------------------------------------- the container engine
ContainerById(id) ==
  IF \E c \in containers : c.ID = id
    THEN CHOOSE c \in containers : c.ID = id
    ELSE NoContainer

\* findAvailableIP: the lowest address of the range that no listed container
\* reports (the engine reports an address only for a running container)
UsedIPs == {c.IP : c \in {d \in containers : d.Running}}

\* a findAvailableIP that returns the highest address no listed container reports
FindAvailableIPHighest ==
  IF IPRange \subseteq UsedIPs THEN 0
  ELSE CHOOSE x \in IPRange \ UsedIPs : \A y \in IPRange \ UsedIPs : y <= x

FindAvailableIP ==
  IF IPRange \subseteq UsedIPs THEN 0 ELSE Min(IPRange \ UsedIPs)

\* ContainerCreate refuses a name that is taken
NameTaken(u) == \E c \in containers : c.Name = u

\* ContainerStart refuses an address or a host port a running container has
StartConflict(c) ==
  \E d \in containers : d.Running /\ d.ID # c.ID /\ (d.IP = c.IP \/ d.HostPort = c.HostPort)

\* an ensureWorkspaceDir that writes its shell init file every time
EnsureWorkspaceDirOverwrite(ws) ==
  [exists |-> TRUE, bashrc |-> "default", files |-> ws.files]

\* ensureWorkspaceDir: MkdirAll, then .bashrc is written only if it is absent
EnsureWorkspaceDir(ws) ==
  [exists |-> TRUE,
   bashrc |-> IF ws.bashrc = "none" THEN "default" ELSE ws.bashrc,
   files |-> ws.files]

\* ------------------------------------------------------------------ Init
Init ==
  /\ migInstances = [g \in GPUs |-> [InUse |-> FALSE, CreatedBy |-> ""]]
  /\ usedPorts = {}
  /\ containers = {}
  /\ workspaces = [u \in Users |-> NoWorkspace]
  /\ sessions = {}
  /\ nextId = 1
  /\ now = 0
  /\ faults = 0
  /\ externals = 0
  /\ pc = [p \in Procs |-> "idle"]
  /\ loc = [p \in Procs |-> NoLoc]
  /\ images = [u \in Users |-> 0]
  /\ watcher = StartedWatcher

Goto(p, label) == pc' = [pc EXCEPT ![p] = label]
SetLoc(p, l) == loc' = [loc EXCEPT ![p] = l]

\* a goroutine between two calls
Resting(p) == pc[p] \in {"idle", "done"}
Quiescent == \A p \in Procs : Resting(p)

\* where a goroutine rests after a call: the sequential caller holds its answer
Rest(p) == IF p = Client THEN "done" ELSE "idle"

\* what stays of a call once it has returned
Finished(p, l, outcome) ==
  IF p = Client
    THEN [NoLoc EXCEPT !.op = l.op, !.id = l.id, !.res = outcome, !.prev = l.prev,
                       !.profile = l.profile, !.uuid = l.uuid]
    ELSE NoLoc

\* the locals of a fresh call; the sequential caller remembers its last answer
Enter(p, o) ==
  [NoLoc EXCEPT !.op = o,
                !.prev = [op |-> loc[p].op, id |-> loc[p].id, res |-> loc[p].res]]

Ticks == now \div (DefaultTTLMinutes + 1)
Work == (nextId - 1) + faults + externals + Ticks

\* a call may start: the process is alive, the goroutine is free and the load
\* is within the bounds
\* (request goroutines are interchangeable: w2 serves only while w1 is busy)
CanStart(p) ==
  /\ ~watcher.panicked
  /\ Resting(p)
  /\ Cardinality({q \in Procs : ~Resting(q)}) < MaxInFlight
  /\ (p = "w2" => ~Resting("w1"))

\* the events a run may hold when caller p starts a CreateSession
WorkLimit(p) == IF p = Client THEN MaxWorkSeq ELSE MaxWork

CanFault == faults < MaxFaults /\ Work < MaxWork
\* the store's DELETE may fail in p's teardown: in the watcher's sweep also
\* when two sessions were created and have expired
CanFaultIn(p) ==
  faults < MaxFaults /\ Work < (IF p = Reaper THEN MaxWorkSeq ELSE MaxWork)
Fault == faults' = faults + 1
NoFault == faults' = faults

\* ------------------------------------------------- session.Service calls
\* time.Duration(m) * time.Minute in whole minutes, rounded down, for a count
\* of minutes m below 3 * 2^63 ns: exact while the product fits 63 bits, and
\* 2^64 ns less once it does not
DurationMinutes(m) ==
  IF m <= MaxDurationMinutes THEN m ELSE m - WrapMinutes - 1

\* the row CreateSession builds from the container and the allocated instance
NewSession(l) ==
  [ID |-> l.id, UserID |-> l.user, ContainerID |-> l.cid, ContainerIP |-> l.ip,
   SSHPort |-> l.port, GPUUUID |-> l.gpu, MIGProfile |-> ProfileOf(l.gpu),
   TTLMinutes |-> l.ttl, CreatedAt |-> now, ExpiresAt |-> now + DurationMinutes(l.ttl)]

\* CreateSession: the existing-session check and the defaults
CreateSessionRequest(w, u, ttl, profile, uuid) ==
  /\ CanStart(w)
  /\ nextId <= MaxSessions /\ Work < WorkLimit(w)
  /\ LET l == [Enter(w, "create") EXCEPT !.user = u, !.id = nextId, !.reqttl = ttl,
                 !.reqprofile = profile,
                 !.ttl = IF ttl <= 0 THEN DefaultTTLMinutes ELSE ttl,
                 !.profile = IF profile = "" /\ uuid = "" THEN DefaultProfile ELSE profile,
                 !.uuid = uuid]
     IN  IF GetSessionByUserID(u) # NoSession
           THEN /\ Goto(w, Rest(w)) /\ SetLoc(w, Finished(w, [l EXCEPT !.id = 0], "err"))
                /\ UNCHANGED nextId
           ELSE /\ Goto(w, "c_gpu") /\ SetLoc(w, l)
                /\ nextId' = nextId + 1
  /\ UNCHANGED <<shared, now, faults, externals, workspaces, images, watcher>>

\* CreateSession for a request that names the profile of the host's instances
CreateSessionCall(w, u, ttl) == CreateSessionRequest(w, u, ttl, InstanceProfile, "")

\* an allocation that goes by the profile whenever the request names one
AllocatableProfileFirst(l) ==
  IF l.profile # "" THEN AllocateMIGCandidates(l.profile) ELSE AllocateMIGByUUID(l.uuid)

\* the instances the request's allocation may return: by UUID when the request
\* names one, by profile otherwise
Allocatable(l) ==
  IF l.uuid # "" THEN AllocateMIGByUUID(l.uuid) ELSE AllocateMIGCandidates(l.profile)

\* CreateSession: gpuManager.AllocateMIGByUUID(uuid, user) or
\* gpuManager.AllocateMIG(profile, user)
CreateAllocGPU(w) ==
  /\ pc[w] = "c_gpu"
  /\ IF Allocatable(loc[w]) = {}
       THEN /\ Goto(w, Rest(w)) /\ SetLoc(w, Finished(w, loc[w], "err"))
            /\ UNCHANGED migInstances
       ELSE \E g \in Allocatable(loc[w]) :
              /\ migInstances' = MarkInUse(migInstances, g, loc[w].user)
              /\ Goto(w, "c_ip") /\ SetLoc(w, [loc[w] EXCEPT !.gpu = g])
  /\ UNCHANGED <<usedPorts, containers, sessions, nextId, now, faults, externals, workspaces, images, watcher>>

\* CreateContainer: generateSSHKeyPair (the call's key pair, named by the
\* call's id), buildImageWithSSHKey (the tag gpu-workspace-<user> then names
\* an image with this call's public key), ensureWorkspaceDir, findAvailableIP
\* (a failure comes before the image is built, before the directory is made,
\* or after it, in the container list)
CreateFindIP(w) ==
  /\ pc[w] = "c_ip"
  /\ LET built == [images EXCEPT ![loc[w].user] = loc[w].id]
         made == [workspaces EXCEPT ![loc[w].user] = EnsureWorkspaceDir(@)]
     IN  \/ /\ FindAvailableIP # 0
            /\ images' = built /\ workspaces' = made
            /\ Goto(w, "c_port") /\ SetLoc(w, [loc[w] EXCEPT !.ip = FindAvailableIP])
            /\ NoFault
         \/ /\ FindAvailableIP = 0
            /\ images' = built /\ workspaces' = made
            /\ Goto(w, "relgpu") /\ UNCHANGED <<loc, faults>>
         \/ /\ CanFault /\ Fault
            /\ \E reached \in {<<images, workspaces>>, <<built, workspaces>>, <<built, made>>} :
                 images' = reached[1] /\ workspaces' = reached[2]
            /\ Goto(w, "relgpu") /\ UNCHANGED loc
  /\ UNCHANGED <<shared, nextId, now, externals, watcher>>

\* CreateContainer: portManager.AllocatePort
CreateAllocPort(w) ==
  /\ pc[w] = "c_port"
  /\ LET p == AllocatePort(usedPorts)
     IN  IF p = 0
           THEN Goto(w, "relgpu") /\ UNCHANGED <<usedPorts, loc>>
           ELSE /\ usedPorts' = usedPorts \cup {p}
                /\ Goto(w, "c_create") /\ SetLoc(w, [loc[w] EXCEPT !.port = p])
  /\ UNCHANGED <<migInstances, containers, sessions, nextId, now, faults, externals, workspaces, images, watcher>>

\* CreateContainer: cli.ContainerCreate under the name <user>-container
CreateContainerCreate(w) ==
  /\ pc[w] = "c_create"
  /\ \/ /\ ~NameTaken(loc[w].user)
        /\ containers' = containers \cup
             {[ID |-> loc[w].id, Name |-> loc[w].user, IP |-> loc[w].ip,
               HostPort |-> loc[w].port, Running |-> FALSE,
               Key |-> images[loc[w].user]]}
        /\ Goto(w, "c_start") /\ SetLoc(w, [loc[w] EXCEPT !.cid = loc[w].id])
        /\ NoFault
     \/ /\ NameTaken(loc[w].user) \/ CanFault
        /\ faults' = IF NameTaken(loc[w].user) THEN faults ELSE faults + 1
        /\ Goto(w, "rm_relport") /\ SetLoc(w, [loc[w] EXCEPT !.rport = loc[w].port])
        /\ UNCHANGED containers
  /\ UNCHANGED <<migInstances, usedPorts, sessions, nextId, now, externals, workspaces, images, watcher>>

\* a CreateContainer that goes on to the store without starting the container
CreateContainerStartSkipped(w) ==
  /\ pc[w] = "c_start"
  /\ Goto(w, "c_persist")
  /\ UNCHANGED <<migInstances, usedPorts, containers, sessions, nextId, now, faults,
                 externals, loc, workspaces, images, watcher>>

\* CreateContainer: cli.ContainerStart
CreateContainerStart(w) ==
  /\ pc[w] = "c_start"
  /\ LET c == ContainerById(loc[w].cid)
         refused == c.ID = 0 \/ StartConflict(c)
     IN  \/ /\ ~refused
            /\ containers' = (containers \ {c}) \cup {[c EXCEPT !.Running = TRUE]}
            /\ Goto(w, "c_persist") /\ UNCHANGED loc /\ NoFault
         \/ /\ refused \/ CanFault
            /\ faults' = IF refused THEN faults ELSE faults + 1
            /\ Goto(w, "rm_relport") /\ SetLoc(w, [loc[w] EXCEPT !.rport = loc[w].port])
            /\ UNCHANGED containers
  /\ UNCHANGED <<migInstances, usedPorts, sessions, nextId, now, externals, workspaces, images, watcher>>

\* CreateSession: store.CreateSession(session)
CreatePersist(w) ==
  /\ pc[w] = "c_persist"
  /\ LET r == NewSession(loc[w])
     IN  \/ /\ InsertAllowed(sessions, r)
            /\ sessions' = sessions \cup {r}
            /\ Goto(w, Rest(w)) /\ SetLoc(w, Finished(w, loc[w], "ok")) /\ NoFault
         \/ /\ ~InsertAllowed(sessions, r) \/ CanFault
            /\ faults' = IF ~InsertAllowed(sessions, r) THEN faults ELSE faults + 1
            /\ Goto(w, "rm_inspect") /\ UNCHANGED <<sessions, loc>>
  /\ UNCHANGED <<migInstances, usedPorts, containers, nextId, now, externals, workspaces, images, watcher>>

\* the teardown of one row starts: cleanupSession(session)
StartCleanup(p, l, r) ==
  /\ Goto(p, "cl_stop")
  /\ SetLoc(p, [l EXCEPT !.cur = r, !.cid = r.ContainerID, !.rport = 0])

\* DeleteSession: store.GetSession(id), then cleanupSession
DeleteSessionById(w, id) ==
  /\ CanStart(w)
  /\ LET l == [Enter(w, "delete") EXCEPT !.id = id]
     IN  IF GetSession(id) = NoSession
           THEN Goto(w, Rest(w)) /\ SetLoc(w, Finished(w, l, "notfound"))
           ELSE StartCleanup(w, l, GetSession(id))
  /\ UNCHANGED <<shared, nextId, now, faults, externals, workspaces, images, watcher>>

\* DeleteSession for an id that some CreateSession has drawn
DeleteSessionCall(w, id) == id < nextId /\ DeleteSessionById(w, id)

\* DeleteAllSessions: store.ListAllSessions, then cleanupSession for each row
DeleteAllSessionsCall(w) ==
  /\ CanStart(w)
  /\ LET l == Enter(w, "deleteall")
     IN  IF sessions = {}
           THEN Goto(w, Rest(w)) /\ SetLoc(w, Finished(w, l, "ok"))
           ELSE \E r \in NewestOf(sessions) :
                  StartCleanup(w, [l EXCEPT !.queue = sessions \ {r}], r)
  /\ UNCHANGED <<shared, nextId, now, faults, externals, workspaces, images, watcher>>

\* a sweep that only drops the rows of expired sessions and their GPU instances
CleanupExpiredSessionsRowsOnly ==
  /\ CanStart(Reaper)
  /\ ListExpiredSessions # {}
  /\ \E r \in ListExpiredSessions :
       /\ Goto(Reaper, "relgpu")
       /\ SetLoc(Reaper, [NoLoc EXCEPT !.op = "sweep", !.queue = ListExpiredSessions \ {r},
                                        !.cur = r, !.cid = r.ContainerID])
  /\ UNCHANGED <<shared, nextId, now, faults, externals, workspaces, images, watcher>>

\* TTLWatcher.watch: a tick runs CleanupExpiredSessions (a goroutine in
\* watch() takes the ticker's case of its select)
CleanupExpiredSessions ==
  /\ watcher.sweepers > 0
  /\ CanStart(Reaper)
  /\ ListExpiredSessions # {}
  /\ \E r \in ListExpiredSessions :
       StartCleanup(Reaper, [NoLoc EXCEPT !.op = "sweep", !.queue = ListExpiredSessions \ {r}], r)
  /\ UNCHANGED <<shared, nextId, now, faults, externals, workspaces, images, watcher>>

\* cleanupSession: dockerClient.StopContainer (stop, else kill)
CleanupStop(p) ==
  /\ pc[p] = "cl_stop"
  /\ containers' = {IF c.ID = loc[p].cid THEN [c EXCEPT !.Running = FALSE] ELSE c : c \in containers}
  /\ Goto(p, "rm_inspect")
  /\ UNCHANGED <<migInstances, usedPorts, sessions, nextId, now, faults, externals, loc, workspaces, images, watcher>>

\* a teardown that gives up with an error when the container is not found
RemoveInspectAbort(p) ==
  /\ pc[p] = "rm_inspect"
  /\ LET c == ContainerById(loc[p].cid)
     IN  IF c.ID = 0
           THEN Goto(p, Rest(p)) /\ SetLoc(p, Finished(p, loc[p], "err"))
           ELSE Goto(p, "rm_relport") /\ SetLoc(p, [loc[p] EXCEPT !.rport = c.HostPort])
  /\ UNCHANGED <<shared, nextId, now, faults, externals, workspaces, images, watcher>>

\* RemoveContainer: cli.ContainerInspect, to learn the host port
RemoveInspect(p) ==
  /\ pc[p] = "rm_inspect"
  /\ LET c == ContainerById(loc[p].cid)
     IN  IF c.ID = 0
           THEN Goto(p, "rm_remove") /\ SetLoc(p, [loc[p] EXCEPT !.rport = 0])
           ELSE Goto(p, "rm_relport") /\ SetLoc(p, [loc[p] EXCEPT !.rport = c.HostPort])
  /\ UNCHANGED <<shared, nextId, now, faults, externals, workspaces, images, watcher>>

\* a rollback that goes on without giving the port back
RemoveReleasePortNothing(p) ==
  /\ pc[p] = "rm_relport"
  /\ Goto(p, IF loc[p].cid = 0 THEN "relgpu" ELSE "rm_remove")
  /\ UNCHANGED <<migInstances, usedPorts, containers, sessions, nextId, now, faults,
                 externals, loc, workspaces, images, watcher>>

\* portManager.ReleasePort (from RemoveContainer, or CreateContainer's rollback)
RemoveReleasePort(p) ==
  /\ pc[p] = "rm_relport"
  /\ usedPorts' = ReleasePort(usedPorts, loc[p].rport)
  /\ Goto(p, IF loc[p].cid = 0 THEN "relgpu" ELSE "rm_remove")
  /\ UNCHANGED <<migInstances, containers, sessions, nextId, now, faults, externals, loc, workspaces, images, watcher>>

\* cli.ContainerRemove(force)
RemoveRemove(p) ==
  /\ pc[p] = "rm_remove"
  /\ containers' = {c \in containers : c.ID # loc[p].cid}
  /\ Goto(p, "relgpu")
  /\ UNCHANGED <<migInstances, usedPorts, sessions, nextId, now, faults, externals, loc, workspaces, images, watcher>>

\* a CreateSession that returns its error without giving the GPU instance back
ReleaseGPUNoRollback(p) ==
  /\ pc[p] = "relgpu"
  /\ IF loc[p].op = "create"
       THEN /\ UNCHANGED migInstances
            /\ Goto(p, Rest(p)) /\ SetLoc(p, Finished(p, loc[p], "err"))
       ELSE /\ migInstances' = ReleaseMIG(migInstances, loc[p].cur.GPUUUID, loc[p].cur.UserID)
            /\ Goto(p, "cl_delete") /\ UNCHANGED loc
  /\ UNCHANGED <<usedPorts, containers, sessions, nextId, now, faults, externals, workspaces, images, watcher>>

\* gpuManager.ReleaseMIG: CreateSession's rollback, or cleanupSession
ReleaseGPU(p) ==
  /\ pc[p] = "relgpu"
  /\ IF loc[p].op = "create"
       THEN /\ migInstances' = ReleaseMIG(migInstances, loc[p].gpu, loc[p].user)
            /\ Goto(p, Rest(p)) /\ SetLoc(p, Finished(p, loc[p], "err"))
       ELSE /\ migInstances' = ReleaseMIG(migInstances, loc[p].cur.GPUUUID, loc[p].cur.UserID)
            /\ Goto(p, "cl_delete") /\ UNCHANGED loc
  /\ UNCHANGED <<usedPorts, containers, sessions, nextId, now, faults, externals, workspaces, images, watcher>>

\* a loop over the listed rows that returns at the first teardown that fails
AfterCleanupStopOnError(p, outcome) ==
  IF loc[p].queue # {} /\ outcome = "ok"
    THEN \E r \in (IF loc[p].op = "deleteall" THEN NewestOf(loc[p].queue) ELSE loc[p].queue) :
           StartCleanup(p, [loc[p] EXCEPT !.queue = loc[p].queue \ {r}], r)
    ELSE /\ Goto(p, Rest(p))
         /\ SetLoc(p, Finished(p, loc[p], IF loc[p].op = "delete" THEN outcome ELSE "ok"))

\* after cleanupSession returned: the next listed row, or the call returns
\* (DeleteSession hands cleanupSession's error on; the loops only log it)
AfterCleanup(p, outcome) ==
  IF loc[p].queue # {}
    THEN \E r \in (IF loc[p].op = "deleteall" THEN NewestOf(loc[p].queue) ELSE loc[p].queue) :
           StartCleanup(p, [loc[p] EXCEPT !.queue = loc[p].queue \ {r}], r)
    ELSE /\ Goto(p, Rest(p))
         /\ SetLoc(p, Finished(p, loc[p], IF loc[p].op = "delete" THEN outcome ELSE "ok"))

\* cleanupSession: store.DeleteSession(session.ID)
CleanupDelete(p) ==
  /\ pc[p] = "cl_delete"
  /\ \/ /\ sessions' = StoreDelete(sessions, loc[p].cur.ID)
        /\ NoFault
        /\ AfterCleanup(p, "ok")
     \/ /\ CanFaultIn(p) /\ Fault
        /\ UNCHANGED sessions
        /\ AfterCleanup(p, "err")
  /\ UNCHANGED <<migInstances, usedPorts, containers, nextId, now, externals, workspaces, images, watcher>>

\* ------------------------------------------------------- the environment
\* a container is destroyed from outside (docker rm -f)
ExternalRemove ==
  /\ externals < MaxExternal /\ Work < MaxWork
  /\ \E c \in containers : containers' = containers \ {c}
  /\ externals' = externals + 1
  /\ UNCHANGED <<migInstances, usedPorts, sessions, nextId, now, faults, pc, loc, workspaces, images, watcher>>

\* time passes: long enough for every row written so far to expire
Tick ==
  /\ Ticks < MaxTicks /\ Work < MaxWork
  /\ now' = now + DefaultTTLMinutes + 1
  /\ UNCHANGED <<shared, nextId, faults, externals, pc, loc, workspaces, images, watcher>>

CallStep(w) ==
  \/ \E u \in Users, ttl \in TTLChoices : CreateSessionCall(w, u, ttl)
  \/ \E id \in SessionIds : DeleteSessionCall(w, id)
  \/ DeleteAllSessionsCall(w)

CreateStep(w) ==
  \/ CreateAllocGPU(w)
  \/ CreateFindIP(w)
  \/ CreateAllocPort(w)
  \/ CreateContainerCreate(w)
  \/ CreateContainerStart(w)
  \/ CreatePersist(w)

TeardownStep(p) ==
  \/ CleanupStop(p)
  \/ RemoveInspect(p)
  \/ RemoveReleasePort(p)
  \/ RemoveRemove(p)
  \/ ReleaseGPU(p)
  \/ CleanupDelete(p)

WorkerStep(w) == CallStep(w) \/ CreateStep(w) \/ TeardownStep(w)

\* concurrent request goroutines, the watcher and the environment
Next ==
  \/ \E w \in Workers : WorkerStep(w)
  \/ TeardownStep(Reaper)
  \/ CleanupExpiredSessions
  \/ ExternalRemove
  \/ Tick

Spec == Init /\ [][Next]_vars

\* one caller issuing its calls in sequence, the watcher and the environment
NextSeq ==
  \/ WorkerStep(Client)
  \/ TeardownStep(Reaper)
  \/ CleanupExpiredSessions
  \/ ExternalRemove
  \/ Tick

SpecSeq == Init /\ [][NextSeq]_vars

\* the watcher keeps ticking and a sweep that has begun goes on
SpecLive ==
  /\ Init /\ [][NextSeq]_vars
  /\ WF_vars(CleanupExpiredSessions)
  /\ WF_vars(TeardownStep(Reaper))

\* the process is killed, wherever its goroutines stand, and started again:
\* main opens the store, builds a new GPU manager (every discovered instance
\* free) and a new port manager (no port used), starts the watcher and serves;
\* the rows of the store and the engine's containers are as they were
Restart ==
  /\ migInstances' = [g \in GPUs |-> [InUse |-> FALSE, CreatedBy |-> ""]]
  /\ usedPorts' = {}
  /\ pc' = [p \in Procs |-> "idle"]
  /\ loc' = [p \in Procs |-> NoLoc]
  /\ UNCHANGED <<containers, sessions, nextId, now, faults, externals, workspaces, images, watcher>>

\* the sequential caller, the watcher, the environment and process restarts
NextBoot ==
  \/ WorkerStep(Client)
  \/ TeardownStep(Reaper)
  \/ CleanupExpiredSessions
  \/ ExternalRemove
  \/ Tick
  \/ Restart

SpecBoot == Init /\ [][NextBoot]_vars

\* a CreateSession whose request names a profile, a UUID, both or neither
RequestStep(w) ==
  \E u \in Users, ttl \in TTLChoices, profile \in RequestProfiles, uuid \in RequestUUIDs :
    CreateSessionRequest(w, u, ttl, profile, uuid)

\* the sequential caller with requests of every shape, the watcher and the
\* environment
NextReq ==
  \/ RequestStep(Client)
  \/ \E id \in SessionIds : DeleteSessionCall(Client, id)
  \/ DeleteAllSessionsCall(Client)
  \/ CreateStep(Client)
  \/ TeardownStep(Client)
  \/ TeardownStep(Reaper)
  \/ CleanupExpiredSessions
  \/ ExternalRemove
  \/ Tick

SpecReq == Init /\ [][NextReq]_vars

\* GetSession: store.GetSession(id), nothing else
GetSessionCall(w, id) ==
  /\ CanStart(w)
  /\ Goto(w, Rest(w))
  /\ SetLoc(w, Finished(w, [Enter(w, "get") EXCEPT !.id = id],
                        IF GetSession(id) = NoSession THEN "notfound" ELSE "ok"))
  /\ UNCHANGED <<shared, nextId, now, faults, externals, workspaces, images, watcher>>

\* a createSession handler that hands every body to the service
PostSessionsUnchecked(w, u, ttl) == CreateSessionRequest(w, u, ttl, InstanceProfile, "")

\* Server.createSession: ShouldBindJSON answers a body whose user_id is
\* missing or empty (binding:"required") without calling the service;
\* any other body goes to CreateSession
PostSessions(w, u, ttl) ==
  IF u = ""
    THEN /\ CanStart(w)
         /\ Goto(w, Rest(w))
         /\ SetLoc(w, Finished(w, Enter(w, "create"), "badrequest"))
         /\ UNCHANGED <<shared, nextId, now, faults, externals, workspaces, images, watcher>>
    ELSE CreateSessionRequest(w, u, ttl, InstanceProfile, "")

\* the status code a handler of the API server answers with, from the
\* operation and what the service returned
HTTPStatus(op, res) ==
  CASE op = "create" -> (IF res = "ok" THEN 201 ELSE IF res = "badrequest" THEN 400 ELSE 500)
    [] op = "get" -> (IF res = "ok" THEN 200 ELSE 404)
    [] OTHER -> (IF res = "ok" THEN 200 ELSE 500)

\* the requests of the HTTP API, served one after the other
ApiStep(w) ==
  \/ \E u \in RequestUsers, ttl \in TTLChoices : PostSessions(w, u, ttl)
  \/ \E id \in SessionIds : GetSessionCall(w, id)
  \/ \E id \in SessionIds : DeleteSessionById(w, id)
  \/ DeleteAllSessionsCall(w)

\* one API client, the watcher and the environment
NextApi ==
  \/ ApiStep(Client)
  \/ CreateStep(Client)
  \/ TeardownStep(Client)
  \/ TeardownStep(Reaper)
  \/ CleanupExpiredSessions
  \/ ExternalRemove
  \/ Tick

SpecApi == Init /\ [][NextApi]_vars

\* a CreateSession whose request carries any ttl_minutes
TTLRequestStep(w) ==
  \E u \in Users, ttl \in RequestTTLs :
    CreateSessionRequest(w, u, ttl, InstanceProfile, "")

\* the sequential caller creating and deleting sessions of every lifetime
\* while time passes (the watcher is not running)
NextTTL ==
  \/ TTLRequestStep(Client)
  \/ \E id \in SessionIds : DeleteSessionCall(Client, id)
  \/ DeleteAllSessionsCall(Client)
  \/ CreateStep(Client)
  \/ TeardownStep(Client)
  \/ Tick

SpecTTL == Init /\ [][NextTTL]_vars

\* the user of a running session works in /workspace, the bind mount of the
\* workspace directory: puts files there and rewrites or removes .bashrc
WorkspaceWrite(u) ==
  /\ \E c \in containers : c.Name = u /\ c.Running
  /\ \E b \in {"none", "user"} :
       /\ workspaces[u] # [exists |-> TRUE, bashrc |-> b, files |-> TRUE]
       /\ workspaces' = [workspaces EXCEPT ![u] = [exists |-> TRUE, bashrc |-> b, files |-> TRUE]]
  /\ UNCHANGED <<migInstances, usedPorts, containers, sessions, nextId, now, faults,
                 externals, pc, loc, images, watcher>>

\* the sequential caller, the watcher, the clock and users at work in their
\* sessions
NextWs ==
  \/ WorkerStep(Client)
  \/ TeardownStep(Reaper)
  \/ CleanupExpiredSessions
  \/ Tick
  \/ \E u \in Users : WorkspaceWrite(u)

SpecWs == Init /\ [][NextWs]_vars

\* the orders in which a range over a map may visit the keys S
Orderings(S) ==
  {o \in [1 .. Cardinality(S) -> S] : \A i, j \in 1 .. Cardinality(S) : i # j => o[i] # o[j]}

\* the copy GetAvailableMIGInstances makes of instance g as its k-th element
InstanceCopy(g, k) ==
  [UUID |-> g, Profile |-> ProfileOf(g), GPUIndex |-> k - 1,
   InUse |-> migInstances[g].InUse, CreatedBy |-> migInstances[g].CreatedBy]

\* a snapshot that lists every instance, in use or not
GetAvailableMIGInstancesAll ==
  {[k \in 1 .. Cardinality(GPUs) |-> InstanceCopy(o[k], k)] : o \in Orderings(GPUs)}

\* GetAvailableMIGInstances: under the read lock, a copy of every instance
\* that is not in use, in the order the map is ranged over, numbered from 0
GetAvailableMIGInstances ==
  LET free == {g \in GPUs : ~migInstances[g].InUse}
  IN  {[k \in 1 .. Cardinality(free) |-> InstanceCopy(o[k], k)] : o \in Orderings(free)}

\* Server.getAvailableMIGInstances: GET /gpus/available answers the snapshot
\* and its length
GetAvailableCall(w) ==
  /\ CanStart(w)
  /\ \E list \in GetAvailableMIGInstances :
       /\ Goto(w, Rest(w))
       /\ SetLoc(w, IF w = Client
                      THEN [Finished(w, Enter(w, "gpus"), "ok") EXCEPT
                              !.snap = list, !.count = Len(list)]
                      ELSE NoLoc)
  /\ UNCHANGED <<shared, nextId, now, faults, externals, workspaces, images, watcher>>

\* the sequential caller creating and deleting sessions and asking for the
\* free instances in between
NextGpu ==
  \/ CallStep(Client)
  \/ CreateStep(Client)
  \/ TeardownStep(Client)
  \/ GetAvailableCall(Client)

SpecGpu == Init /\ [][NextGpu]_vars

\* a container on the private bridge that no session of this run made, at
\* address a of the range
Foreign(a, running) ==
  [ID |-> 1000 + a, Name |-> ToString(a), IP |-> a, HostPort |-> 0, Running |-> running,
   Key |-> 0]

\* what the bridge may hold when the orchestrator starts: nothing, or
\* containers at the addresses from the start of the range up to one of the
\* last three, one of the first two addresses possibly left out and the
\* container at the third possibly stopped
BridgeStates ==
  {{Foreign(a, a # s) : a \in (IPRangeStart .. top) \ {h}} :
     top \in {IPRangeStart - 1, IPRangeEnd - 2, IPRangeEnd - 1, IPRangeEnd},
     h \in {0, IPRangeStart, IPRangeStart + 1},
     s \in {0, IPRangeStart + 2}}

\* the orchestrator starts on a bridge that other containers populate
InitIP ==
  /\ migInstances = [g \in GPUs |-> [InUse |-> FALSE, CreatedBy |-> ""]]
  /\ usedPorts = {}
  /\ containers \in BridgeStates
  /\ workspaces = [u \in Users |-> NoWorkspace]
  /\ sessions = {}
  /\ nextId = 1
  /\ now = 0
  /\ faults = 0
  /\ externals = 0
  /\ pc = [p \in Procs |-> "idle"]
  /\ loc = [p \in Procs |-> NoLoc]
  /\ images = [u \in Users |-> 0]
  /\ watcher = StartedWatcher

\* the sequential caller on such a bridge
NextIP == WorkerStep(Client)

SpecIP == InitIP /\ [][NextIP]_vars

\* the steps by which a failed CreateSession gives back what it reserved
RollbackStep(w) ==
  \/ RemoveInspect(w)
  \/ RemoveReleasePort(w)
  \/ RemoveRemove(w)
  \/ ReleaseGPU(w)

\* two request goroutines serving CreateSession calls only
NextDup ==
  \E w \in Workers :
    \/ \E u \in Users, ttl \in TTLChoices : CreateSessionCall(w, u, ttl)
    \/ CreateStep(w)
    \/ RollbackStep(w)

SpecDup == Init /\ [][NextDup]_vars

\* TTLWatcher.Start: nothing when running; else running = true and go watch()
WatcherStart ==
  /\ ~watcher.panicked
  /\ watcher' = IF watcher.running
                  THEN [watcher EXCEPT !.last = "start"]
                  ELSE [watcher EXCEPT !.running = TRUE, !.sweepers = @ + 1, !.last = "start"]
  /\ UNCHANGED <<shared, nextId, now, faults, externals, pc, loc, workspaces, images>>

\* TTLWatcher.Stop: nothing when not running; else running = false and
\* close(stopChan). The channel is made once, in NewTTLWatcher: closing it a
\* second time panics, and the panic ends the process with all its goroutines
WatcherStop ==
  /\ ~watcher.panicked
  /\ IF ~watcher.running
       THEN /\ watcher' = [watcher EXCEPT !.last = "stop"]
            /\ UNCHANGED <<pc, loc>>
       ELSE IF ~watcher.closed
         THEN /\ watcher' = [watcher EXCEPT !.running = FALSE, !.closed = TRUE, !.last = "stop"]
              /\ UNCHANGED <<pc, loc>>
         ELSE /\ watcher' = [watcher EXCEPT !.running = FALSE, !.sweepers = 0,
                                            !.last = "stop", !.panicked = TRUE]
              /\ pc' = [p \in Procs |-> "idle"]
              /\ loc' = [p \in Procs |-> NoLoc]
  /\ UNCHANGED <<shared, nextId, now, faults, externals, workspaces, images>>

\* TTLWatcher.watch: a goroutine at its select takes the case of the closed
\* stopChan and returns
WatchReturn ==
  /\ ~watcher.panicked
  /\ watcher.closed
  /\ watcher.sweepers > (IF Resting(Reaper) THEN 0 ELSE 1)
  /\ watcher' = [watcher EXCEPT !.sweepers = @ - 1]
  /\ UNCHANGED <<shared, nextId, now, faults, externals, pc, loc, workspaces, images>>

\* Start and Stop calls on the watcher while the sequential caller creates
\* sessions, time passes and sweeps run
NextWatch ==
  \/ WatcherStart
  \/ WatcherStop
  \/ WatchReturn
  \/ CleanupExpiredSessions
  \/ TeardownStep(Reaper)
  \/ Tick
  \/ \E u \in Users, ttl \in TTLChoices : CreateSessionCall(Client, u, ttl)
  \/ CreateStep(Client)
  \/ RollbackStep(Client)

SpecWatch == Init /\ [][NextWatch]_vars

\* the labels of one row's teardown, in the order cleanupSession runs them
TeardownLabels == {"cl_stop", "rm_inspect", "rm_relport", "rm_remove", "relgpu", "cl_delete"}

\* the engine state the session service works on
Engine == [mig |-> migInstances, ports |-> usedPorts, cont |-> containers, rows |-> sessions]

\* cleanupSession(l.cur) run to its end from label at with nothing in between
\* and no failure, on engine state e: StopContainer, RemoveContainer (inspect,
\* ReleasePort if the container is found, ContainerRemove), ReleaseMIG,
\* store.DeleteSession
RECURSIVE CleanupFrom(_, _, _)
CleanupFrom(at, e, l) ==
  CASE at = "cl_stop" ->
         CleanupFrom("rm_inspect",
           [e EXCEPT !.cont = {IF c.ID = l.cid THEN [c EXCEPT !.Running = FALSE] ELSE c : c \in e.cont}], l)
    [] at = "rm_inspect" ->
         IF \E c \in e.cont : c.ID = l.cid
           THEN CleanupFrom("rm_relport", e,
                  [l EXCEPT !.rport = (CHOOSE c \in e.cont : c.ID = l.cid).HostPort])
           ELSE CleanupFrom("rm_remove", e, [l EXCEPT !.rport = 0])
    [] at = "rm_relport" ->
         CleanupFrom("rm_remove", [e EXCEPT !.ports = ReleasePort(e.ports, l.rport)], l)
    [] at = "rm_remove" ->
         CleanupFrom("relgpu", [e EXCEPT !.cont = {c \in e.cont : c.ID # l.cid}], l)
    [] at = "relgpu" ->
         CleanupFrom("cl_delete",
           [e EXCEPT !.mig = ReleaseMIG(e.mig, l.cur.GPUUUID, l.cur.UserID)], l)
    [] OTHER -> [e EXCEPT !.rows = StoreDelete(e.rows, l.cur.ID)]

\* ------------------------------------------------------------- the claims
\* port p is in the hands of a request other than id: a later CreateSession
\* was handed it after id's request gave it back
PortHeldByOther(id, p) ==
  \/ \E r \in sessions : r.ID # id /\ r.SSHPort = p
  \/ \E c \in containers : c.ID # id /\ c.HostPort = p
  \/ \E q \in Callers : ~Resting(q) /\ loc[q].op = "create" /\ loc[q].id # id /\ loc[q].port = p

\* nothing of request id is left: no row, no container, GPU g free, port p free
NothingLeftOf(id, g, p) ==
  /\ \A r \in sessions : r.ID # id
  /\ \A c \in containers : c.ID # id
  /\ g # "" => ~migInstances[g].InUse
  /\ p # 0 => (p \notin usedPorts \/ PortHeldByOther(id, p))

\* CreateSession returns an error from caller w's request (id, g, p)
CreateReturnsError(w, id, g, p) ==
  /\ ~Resting(w) /\ loc[w].op = "create"
  /\ loc[w].id = id /\ loc[w].gpu = g /\ loc[w].port = p
  /\ pc'[w] \in {"idle", "done"}
  /\ \A r \in sessions' : r.ID # id

\* C1: whenever CreateSession returns an error, at whatever step it failed,
\* no session row exists for the request, the GPU instance it reserved is free,
\* the host port it reserved is free (or already handed to a later request),
\* and no container it created remains.
C1_CreateAllOrNothing ==
  [][\A w \in Callers, id \in SessionIds, g \in GPUs \cup {""}, p \in Ports \cup {0} :
       CreateReturnsError(w, id, g, p) => NothingLeftOf(id, g, p)']_vars

\* C2: after any interleaving of CreateSession, DeleteSession,
\* DeleteAllSessions and sweeps (no injected failure, no container destroyed
\* from outside), once every call has returned any two distinct session rows
\* have different GPU instances, different host ports and different addresses.
C2_DistinctResources ==
  (Quiescent /\ faults = 0 /\ externals = 0) =>
    \A a, b \in sessions :
      a # b => /\ a.GPUUUID # b.GPUUUID
               /\ a.SSHPort # b.SSHPort
               /\ a.ContainerIP # b.ContainerIP

\* C3: in every reachable state the store holds at most one row per user,
\* also when CreateSession calls for the same user run concurrently.
C3_OneRowPerUser ==
  \A a, b \in sessions : a.UserID = b.UserID => a = b

\* a CreateSession that passed the existing-session check is rolling back
\* because the store refused its row: the user has a row by now
C3_Witness ==
  \E w \in Callers :
    /\ pc[w] = "rm_inspect" /\ loc[w].op = "create" /\ faults = 0
    /\ \E r \in sessions : r.UserID = loc[w].user /\ r.ID # loc[w].id

\* C4: at every quiescent point (no call and no sweep in flight; no injected
\* failure, no container destroyed from outside) every session row's GPU
\* instance is marked held by the row's user and its host port is marked held.
C4_RowsHoldTheirResources ==
  (Quiescent /\ faults = 0 /\ externals = 0) =>
    \A r \in sessions :
      /\ migInstances[r.GPUUUID].InUse
      /\ migInstances[r.GPUUUID].CreatedBy = r.UserID
      /\ r.SSHPort \in usedPorts

\* C5: no leaks: at every quiescent point (no injected failure) every GPU
\* instance marked held is the instance of some session row and every port
\* marked held is the host port of some session row.
C5_NoLeaks ==
  (Quiescent /\ faults = 0) =>
    /\ \A g \in GPUs : migInstances[g].InUse => \E r \in sessions : r.GPUUUID = g
    /\ \A p \in usedPorts : \E r \in sessions : r.SSHPort = p

\* GPU instance g is in the hands of a request other than id
GPUHeldByOther(id, g) ==
  \/ \E r \in sessions : r.ID # id /\ r.GPUUUID = g
  \/ \E q \in Callers : ~Resting(q) /\ loc[q].op = "create" /\ loc[q].id # id /\ loc[q].gpu = g

\* DeleteSession(id) returns success to caller w; the row named GPU g and port p
DeleteReturnsOk(w, id, g, p) ==
  /\ pc[w] = "cl_delete" /\ loc[w].op = "delete"
  /\ loc[w].cur.ID = id /\ loc[w].cur.GPUUUID = g /\ loc[w].cur.SSHPort = p
  /\ pc'[w] \in {"idle", "done"}
  /\ faults' = faults

\* the row id is gone and what it named is free or already handed out again
ResourcesReleased(id, g, p) ==
  /\ \A r \in sessions : r.ID # id
  /\ ~migInstances[g].InUse \/ GPUHeldByOther(id, g)
  /\ p \notin usedPorts \/ PortHeldByOther(id, p)

\* C6: whenever DeleteSession(id) returns success the row is gone and the
\* GPU instance and the host port the row named are free, whatever became of
\* the container stop, inspect and remove steps.
C6_DeleteReleasesAll ==
  [][\A w \in Callers, id \in SessionIds, g \in GPUs, p \in Ports :
       DeleteReturnsOk(w, id, g, p) => ResourcesReleased(id, g, p)']_vars

\* caller w's DeleteSession performs its ReleaseMIG on instance g
DeleteReleasesGPU(w, g) ==
  /\ loc[w].op = "delete" /\ pc[w] = "relgpu" /\ pc'[w] = "cl_delete"
  /\ loc[w].cur.GPUUUID = g

\* caller w's DeleteSession performs its ReleasePort on port p
DeleteReleasesPort(w, p) ==
  /\ loc[w].op = "delete" /\ pc[w] = "rm_relport" /\ pc'[w] = "rm_remove"
  /\ loc[w].rport = p

\* port p is in the hands of a session of a user other than u
PortHeldByOtherUser(u, p) ==
  \/ \E r \in sessions : r.UserID # u /\ r.SSHPort = p
  \/ \E q \in Callers : ~Resting(q) /\ loc[q].op = "create" /\ loc[q].user # u /\ loc[q].port = p

\* GPU instance g is in the hands of a user other than u
GPUHeldByOtherUser(u, g) ==
  migInstances[g].InUse /\ migInstances[g].CreatedBy # u

\* C7: with DeleteSession(id) called concurrently for the same id and
\* CreateSession calls by other users in between (no injected failure, no
\* outside event), a deleter never sets free a GPU instance or a port that has
\* been handed to another user's session in the meantime.
C7_NoStaleRelease ==
  [][(faults = 0 /\ externals = 0 /\ now = 0) =>
       /\ \A w \in Callers, g \in GPUs :
            (DeleteReleasesGPU(w, g) /\ GPUHeldByOtherUser(loc[w].cur.UserID, g))
              => migInstances'[g].InUse
       /\ \A w \in Callers, p \in Ports :
            (DeleteReleasesPort(w, p) /\ PortHeldByOtherUser(loc[w].cur.UserID, p))
              => p \in usedPorts']_vars

\* C8: the sweep goes by id: a row that a DeleteSession removed after the sweep
\* listed it is found absent when the sweep reaches it, so the sweep starts
\* no container operation, port release or GPU release for it.
C8_SweepSkipsDeletedRows ==
  [][(pc[Reaper] # "cl_stop" /\ pc'[Reaper] = "cl_stop")
       => loc'[Reaper].cur.ID \in SessionIDsOf(sessions')]_vars

\* the sequential caller issues DeleteSession(id)
ClientCallsDelete(id) ==
  /\ Resting(Client) /\ loc'[Client] # loc[Client]
  /\ loc'[Client].op = "delete" /\ loc'[Client].id = id

\* the sequential caller holds the answer res of a DeleteSession(id)
ClientHoldsDeleteAnswer(id, res) ==
  /\ pc[Client] = "done" /\ loc[Client].op = "delete"
  /\ loc[Client].id = id /\ loc[Client].res = res

\* C9: DeleteSession is idempotent in sequence: called for an id that has a
\* row it does not answer not-found, and it answers success unless the store's
\* DELETE itself fails; called again for the id it has just deleted with
\* success it answers not-found and changes no pool entry, no container and
\* no row.
C9_DeleteIdempotent ==
  [][\A id \in SessionIds :
       /\ (ClientCallsDelete(id) /\ id \in SessionIDsOf(sessions))
            => pc'[Client] = "cl_stop"
       /\ (pc[Client] = "cl_delete" /\ loc[Client].op = "delete" /\ loc[Client].id = id
             /\ pc'[Client] = "done" /\ faults' = faults)
            => ClientHoldsDeleteAnswer(id, "ok")'
       /\ (ClientHoldsDeleteAnswer(id, "ok") /\ ClientCallsDelete(id))
            => /\ ClientHoldsDeleteAnswer(id, "notfound")'
               /\ UNCHANGED shared]_vars

\* the caller has deleted an id with success and then been answered not-found
C9_Witness ==
  \E id \in SessionIds :
    /\ ClientHoldsDeleteAnswer(id, "notfound")
    /\ loc[Client].prev = [op |-> "delete", id |-> id, res |-> "ok"]

\* row id, naming GPU instance g and port p, is in the store and has expired
ExpiredRow(id, g, p) ==
  \E r \in sessions :
    r.ID = id /\ r.GPUUUID = g /\ r.SSHPort = p /\ r.ExpiresAt < now

\* a sweep has taken up the expired row id, which names GPU g and port p
SweepTakesUp(id, g, p) ==
  /\ pc[Reaper] = "cl_stop" /\ loc[Reaper].cur.ID = id
  /\ ExpiredRow(id, g, p)

\* C10: given that the watcher keeps ticking, every row whose expiry has
\* passed is eventually removed (a row whose teardown failed is taken up again
\* by a later sweep), and once a sweep has taken a row up the row's GPU
\* instance and port eventually become free again.
C10_ExpiredEventuallyReaped ==
  \A id \in SessionIds, g \in GPUs, p \in Ports :
    /\ ExpiredRow(id, g, p) ~> (id \notin SessionIDsOf(sessions))
    /\ SweepTakesUp(id, g, p) ~> ResourcesReleased(id, g, p)

\* the watcher takes a step of a sweep
SweepStep == pc'[Reaper] # pc[Reaper]

\* row r and what it names stand after the step as they stood before it
LeftUnchanged(r) ==
  /\ r \in sessions'
  /\ migInstances'[r.GPUUUID] = migInstances[r.GPUUUID]
  /\ (r.SSHPort \in usedPorts') = (r.SSHPort \in usedPorts)
  /\ {c \in containers' : c.ID = r.ContainerID} = {c \in containers : c.ID = r.ContainerID}

\* C11: a sweep tears down only rows whose expiry lies strictly before the
\* current time: no step of a sweep (no injected failure, no outside event)
\* changes a row whose expiry has not passed, nor the state of its GPU
\* instance, of its host port or of its container.
C11_SweepSparesUnexpired ==
  [][(SweepStep /\ faults = 0 /\ externals = 0) =>
       \A r \in sessions : ~(r.ExpiresAt < now) => LeftUnchanged(r)]_vars

\* goroutine p begins the teardown of a row for a DeleteSession or a sweep
BeginsTeardown(p) ==
  /\ loc'[p].op \in {"delete", "sweep"} /\ pc'[p] \in TeardownLabels
  /\ pc[p] \notin TeardownLabels \/ loc'[p].cur # loc[p].cur

\* goroutine p takes a step of the teardown of a row for a DeleteSession or a sweep
TeardownStepOf(p) ==
  /\ loc[p].op \in {"delete", "sweep"} /\ pc[p] \in TeardownLabels
  /\ pc'[p] # pc[p]

\* C12: reaper equivalence. A sweep that takes up a row R present in the
\* store and a DeleteSession(R.ID) begin the same teardown (cleanupSession on
\* R, from its first step, for R's container); every step either of them takes
\* leaves unchanged the state in which the teardown, run on alone, would end,
\* and their last step ends in it (a failed store DELETE leaves the state as
\* it is, for both). So from the same state they end in the same rows, GPU
\* pool, port pool and containers.
C12_ReaperEquivalence ==
  [][\A p \in {Client, Reaper} :
       /\ (BeginsTeardown(p) /\ loc'[p].cur \in sessions')
            => /\ pc'[p] = "cl_stop"
               /\ loc'[p].cid = loc'[p].cur.ContainerID
       /\ (TeardownStepOf(p) /\ pc[p] # "cl_delete")
            => CleanupFrom(pc'[p], Engine', loc'[p]) = CleanupFrom(pc[p], Engine, loc[p])
       /\ (TeardownStepOf(p) /\ pc[p] = "cl_delete")
            => Engine' = IF faults' = faults THEN CleanupFrom("cl_delete", Engine, loc[p])
                                          ELSE Engine]_vars

\* the caller created a session and has called nothing since; the row is gone
\* and the watcher is idle: a sweep has processed the row
C12_Witness ==
  /\ pc[Client] = "done" /\ loc[Client].op = "create" /\ loc[Client].res = "ok"
  /\ loc[Client].id \notin SessionIDsOf(sessions)
  /\ pc[Reaper] = "idle" /\ faults = 0 /\ externals = 0

\* C13: after a process restart with rows in the store, before any request is
\* served, the GPU pool marks each row's instance as held by the row's user
\* and the port pool marks each row's host port as held (so that no
\* CreateSession after the restart is given an instance or a port a row names).
C13_PoolsRebuiltOnRestart ==
  [][Restart =>
       \A r \in sessions' :
         /\ migInstances'[r.GPUUUID].InUse
         /\ migInstances'[r.GPUUUID].CreatedBy = r.UserID
         /\ r.SSHPort \in usedPorts']_vars

\* C14: startup reconciliation removes stale rows: once the process has
\* restarted and serves, no row is left whose container no longer exists.
C14_StaleRowsRemovedOnRestart ==
  [][Restart =>
       \A r \in sessions' : \E c \in containers' : c.ID = r.ContainerID]_vars

\* user u's session exists fully: a row, its container running, its GPU
\* instance held by u and its host port held
SessionExistsFully(u) ==
  \E r \in sessions :
    /\ r.UserID = u
    /\ \E c \in containers : c.ID = r.ContainerID /\ c.Running
    /\ migInstances[r.GPUUUID].InUse /\ migInstances[r.GPUUUID].CreatedBy = u
    /\ r.SSHPort \in usedPorts

\* nothing is held for user u: no row, no container under the user's name
\* and no GPU instance, so that a new CreateSession for u can go through
NothingHeldFor(u) ==
  /\ GetSessionByUserID(u) = NoSession
  /\ ~NameTaken(u)
  /\ \A g \in GPUs : ~(migInstances[g].InUse /\ migInstances[g].CreatedBy = u)

\* the process is killed while the caller's CreateSession for u is under way
KilledDuringCreate(u) ==
  /\ Restart
  /\ ~Resting(Client) /\ loc[Client].op = "create" /\ loc[Client].user = u

\* C15: crash safety: when the process is killed at any point of a
\* CreateSession for u and started again, then once it serves either u's
\* session exists fully or nothing is held for u.
C15_CrashSafeCreate ==
  [][\A u \in Users :
       (KilledDuringCreate(u) /\ faults = 0 /\ externals = 0)
         => (SessionExistsFully(u)' \/ NothingHeldFor(u)')]_vars

\* the sequential caller issues a CreateSession
ClientCallsCreate ==
  /\ Resting(Client) /\ loc'[Client] # loc[Client]
  /\ loc'[Client].op = "create"

NoFreeSlice(profile) ==
  \A g \in GPUs : migInstances[g].InUse \/ ProfileOf(g) # profile

C18_AllocateByUUID ==
  [][\A U \in GPUs \cup {UnknownUUID} :
       /\ (pc[Client] = "c_gpu" /\ pc'[Client] # "c_gpu" /\ loc[Client].uuid = U)
            => IF U \in GPUs /\ ~migInstances[U].InUse
                 THEN /\ pc'[Client] = "c_ip" /\ loc'[Client].gpu = U
                      /\ migInstances'[U] = [InUse |-> TRUE, CreatedBy |-> loc[Client].user]
                      /\ \A g \in GPUs \ {U} : migInstances'[g] = migInstances[g]
                      /\ UNCHANGED <<usedPorts, containers, sessions>>
                 ELSE /\ pc'[Client] = "done" /\ loc'[Client].res = "err"
                      /\ UNCHANGED shared
       /\ (/\ pc[Client] = "c_persist" /\ loc[Client].uuid = U
           /\ pc'[Client] = "done" /\ loc'[Client].res = "ok")
            => \E r \in sessions' \ sessions :
                 r.ID = loc[Client].id /\ r.UserID = loc[Client].user /\ r.GPUUUID = U]_vars

\* a request for instance MIG-b was served: its row names MIG-b, which is held
\* by the row's user, while MIG-a is free
C18_Witness ==
  /\ pc[Client] = "done" /\ loc[Client].op = "create" /\ loc[Client].res = "ok"
  /\ loc[Client].uuid = "MIG-b"
  /\ \E r \in sessions :
       /\ r.ID = loc[Client].id /\ r.GPUUUID = "MIG-b"
       /\ migInstances["MIG-b"] = [InUse |-> TRUE, CreatedBy |-> r.UserID]
  /\ ~migInstances["MIG-a"].InUse

\* C19: when every port of the range is held, CreateSession fails cleanly:
\* up to the port allocation the call has not touched the port pool, the
\* allocation takes no port and creates nothing, and the call then returns
\* an error with the GPU instance it had reserved released, no container and
\* no row of its own, and the port pool as it was.
C19_PortExhaustionFailsCleanly ==
  [][/\ (pc[Client] \in {"c_gpu", "c_ip"} /\ pc'[Client] # pc[Client])
          => UNCHANGED usedPorts
     /\ (pc[Client] = "c_port" /\ pc'[Client] # "c_port" /\ Ports \subseteq usedPorts)
          => /\ pc'[Client] = "relgpu" /\ loc'[Client].port = 0
             /\ UNCHANGED shared
     /\ (/\ pc[Client] = "relgpu" /\ pc'[Client] # "relgpu"
         /\ loc[Client].op = "create" /\ loc[Client].ip # 0 /\ loc[Client].port = 0)
          => /\ pc'[Client] = "done" /\ loc'[Client].res = "err"
             /\ ~migInstances'[loc[Client].gpu].InUse
             /\ UNCHANGED <<usedPorts, containers, sessions>>
             /\ \A c \in containers' : c.ID # loc[Client].id
             /\ \A r \in sessions' : r.ID # loc[Client].id]_vars

\* a CreateSession was answered with an error although no step failed and an
\* instance of its profile is free: every port of the range is held
C19_Witness ==
  /\ pc[Client] = "done" /\ loc[Client].op = "create"
  /\ loc[Client].res = "err" /\ loc[Client].id # 0
  /\ Ports \subseteq usedPorts /\ faults = 0
  /\ \E g \in GPUs : ~migInstances[g].InUse /\ ProfileOf(g) = loc[Client].profile
  /\ \A c \in containers : c.ID # loc[Client].id

\* a DeleteAllSessions call is in progress: it has listed the rows and has
\* not returned
BulkDeleteInProgress == \E q \in Callers : ~Resting(q) /\ loc[q].op = "deleteall"

\* caller w's CreateSession starts, reserves a GPU instance or a port, or
\* commits its row
CreateProceeds(w) ==
  \/ Resting(w) /\ pc'[w] = "c_gpu"
  \/ pc[w] = "c_gpu" /\ pc'[w] = "c_ip"
  \/ pc[w] = "c_port" /\ pc'[w] = "c_create"
  \/ pc[w] = "c_persist" /\ \E r \in sessions' \ sessions : r.ID = loc[w].id

\* C20: while a DeleteAllSessions call is in progress no CreateSession starts,
\* none reserves a GPU instance or a port and none commits a row.
C20_NoCreateDuringBulkDelete ==
  [][BulkDeleteInProgress => \A w \in Callers : ~CreateProceeds(w)]_vars

\* the sequential caller's DeleteAllSessions ends the teardown of one listed row
BulkDeleteEndsRow ==
  /\ pc[Client] = "cl_delete" /\ loc[Client].op = "deleteall"
  /\ pc'[Client] # "cl_delete"

\* C21: DeleteAllSessions applies the teardown to every row it listed, also
\* after the teardown of an earlier row failed: when one row's teardown ends,
\* failed or not, the call takes up another listed row until none is left and
\* only then returns. It returns success if and only if every per-row teardown
\* succeeded: success when nothing has failed, an error when the teardown that
\* has just ended failed.
C21_BulkDeleteAggregates ==
  [][BulkDeleteEndsRow =>
       /\ loc[Client].queue # {}
            => /\ pc'[Client] = "cl_stop"
               /\ loc'[Client].cur \in loc[Client].queue
               /\ loc'[Client].queue = loc[Client].queue \ {loc'[Client].cur}
       /\ loc[Client].queue = {}
            => /\ pc'[Client] = "done"
               /\ faults' = 0 => loc'[Client].res = "ok"
               /\ faults' # faults => loc'[Client].res = "err"]_vars

\* the sequential caller's DeleteAllSessions returns success
BulkDeleteReturnsOk ==
  /\ loc'[Client].op = "deleteall" /\ pc'[Client] = "done" /\ loc'[Client].res = "ok"
  /\ pc[Client] # "done" \/ loc'[Client] # loc[Client]

\* C22: when DeleteAllSessions reports success and no CreateSession runs
\* concurrently (the caller issues its calls in sequence), the store holds no
\* row, every GPU instance is free and every port is free.
C22_BulkDeleteLeavesNothing ==
  [][BulkDeleteReturnsOk =>
       /\ sessions' = {}
       /\ \A g \in GPUs : ~migInstances'[g].InUse
       /\ usedPorts' = {}]_vars

\* the GPU pool hands instance g to caller w's CreateSession
AllocatesGPU(w, g) ==
  pc[w] = "c_gpu" /\ pc'[w] = "c_ip" /\ loc'[w].gpu = g

\* the port pool hands port p to caller w's CreateSession
AllocatesPort(w, p) ==
  pc[w] = "c_port" /\ pc'[w] = "c_create" /\ loc'[w].port = p

\* some goroutine performs a ReleaseMIG
ReleasesSomeGPU == \E p \in Procs : pc[p] = "relgpu" /\ pc'[p] # "relgpu"

\* some goroutine performs a ReleasePort
ReleasesSomePort == \E p \in Procs : pc[p] = "rm_relport" /\ pc'[p] # "rm_relport"

\* C23: pool allocations are linearizable. Under any interleaving of
\* concurrent requests and sweeps, an allocation hands out only an instance
\* (a port) that is free at that moment and marks it held in the same step;
\* an instance (a port) becomes held only by an allocation, to one caller,
\* and becomes free only by a release. So between two allocations that return
\* the same instance or port there is a release of it.
C23_PoolsLinearizable ==
  [][/\ \A w \in Callers, g \in GPUs :
          AllocatesGPU(w, g)
            => /\ ~migInstances[g].InUse
               /\ migInstances'[g] = [InUse |-> TRUE, CreatedBy |-> loc[w].user]
     /\ \A w \in Callers, p \in Ports :
          AllocatesPort(w, p) => (p \notin usedPorts /\ p \in usedPorts')
     /\ \A g \in GPUs :
          /\ (~migInstances[g].InUse /\ migInstances'[g].InUse)
               => \E w \in Callers : AllocatesGPU(w, g)
          /\ (migInstances[g].InUse /\ ~migInstances'[g].InUse) => ReleasesSomeGPU
     /\ \A p \in Ports :
          /\ (p \notin usedPorts /\ p \in usedPorts')
               => \E w \in Callers : AllocatesPort(w, p)
          /\ (p \in usedPorts /\ p \notin usedPorts') => ReleasesSomePort]_vars

\* two CreateSession calls in flight at once, each with an instance and a port
\* of its own, after an earlier session gave its instance and port back
C23_Witness ==
  \E v, w \in Workers :
    /\ v # w /\ pc[v] = "c_create" /\ pc[w] = "c_create"
    /\ loc[v].gpu # loc[w].gpu /\ loc[v].port # loc[w].port
    /\ loc[v].id > 1 /\ loc[w].id > 1

\* goroutine p performs the ReleasePort of its teardown or rollback
ReleasesPort(p) == pc[p] = "rm_relport" /\ pc'[p] # "rm_relport"

\* C24: AllocatePort returns the lowest port of the range that is not held
\* and marks exactly that port held; it fails, changing nothing, exactly when
\* every port of the range is held. ReleasePort of a held port frees exactly
\* that port; ReleasePort of a free port changes nothing.
C24_PortPool ==
  [][/\ (pc[Client] = "c_port" /\ pc'[Client] # "c_port")
          => IF Ports \subseteq usedPorts
               THEN pc'[Client] = "relgpu" /\ usedPorts' = usedPorts
               ELSE /\ pc'[Client] = "c_create"
                    /\ loc'[Client].port \in Ports \ usedPorts
                    /\ \A q \in Ports \ usedPorts : loc'[Client].port <= q
                    /\ usedPorts' = usedPorts \cup {loc'[Client].port}
     /\ \A p \in {Client, Reaper} :
          ReleasesPort(p)
            => IF loc[p].rport \in usedPorts
                 THEN /\ loc[p].rport \notin usedPorts'
                      /\ \A q \in Ports \ {loc[p].rport} : (q \in usedPorts') = (q \in usedPorts)
                 ELSE usedPorts' = usedPorts]_vars

\* the caller's third request was handed the first port of the range, given
\* back by an earlier session, while the second port is held
C24_Witness ==
  /\ pc[Client] = "c_create" /\ loc[Client].id = 3
  /\ loc[Client].port = PortStart
  /\ usedPorts = Ports

\* goroutine p performs ReleaseMIG(g, u): in a teardown for the instance and
\* the user its row names, in CreateSession's rollback for its own
ReleasesGPU(p, g, u) ==
  /\ pc[p] = "relgpu" /\ pc'[p] # "relgpu"
  /\ IF loc[p].op = "create"
       THEN loc[p].gpu = g /\ loc[p].user = u
       ELSE loc[p].cur.GPUUUID = g /\ loc[p].cur.UserID = u

\* C25: ReleaseMIG(uuid, userId) on a known instance always leaves that
\* instance free with no holder and changes no other instance: when the
\* instance is already free nothing changes and the caller goes on as after a
\* success, and an instance held by a user other than userId is released all
\* the same.
C25_ReleaseAlwaysFrees ==
  [][\A p \in {Client, Reaper}, g \in GPUs, u \in Users :
       ReleasesGPU(p, g, u)
         => /\ migInstances'[g] = [InUse |-> FALSE, CreatedBy |-> ""]
            /\ \A h \in GPUs \ {g} : migInstances'[h] = migInstances[h]
            /\ ~migInstances[g].InUse => migInstances' = migInstances
            /\ loc[p].op # "create" => pc'[p] = "cl_delete"]_vars

\* a teardown has just released the instance its row names, and the instance
\* is free although a newer row of another user names it: it was held by that
\* user when it was released
C25_Witness ==
  \E p \in {Client, Reaper} :
    /\ pc[p] = "cl_delete" /\ externals = 0
    /\ ~migInstances[loc[p].cur.GPUUUID].InUse
    /\ \E r \in sessions :
         /\ r.GPUUUID = loc[p].cur.GPUUUID /\ r.UserID # loc[p].cur.UserID
         /\ r.ID > loc[p].cur.ID

\* caller w's CreateSession has selected a container address and has not yet
\* returned
HoldsSelectedIP(w) == ~Resting(w) /\ loc[w].op = "create" /\ loc[w].ip # 0

\* C26: IP selection is serialized with the creation of the container that
\* takes the address: two CreateSession calls that run concurrently never
\* hold the same selected container address.
C26_DistinctSelectedIPs ==
  \A v, w \in Callers :
    (v # w /\ HoldsSelectedIP(v) /\ HoldsSelectedIP(w)) => loc[v].ip # loc[w].ip

\* the sequential caller's CreateSession returns success
ClientCreateSucceeds ==
  pc[Client] = "c_persist" /\ pc'[Client] = "done" /\ loc'[Client].res = "ok"

\* C27: for every successful CreateSession the persisted ttlMinutes is the
\* requested value when that is positive and 60 when it is zero or negative,
\* and expiresAt equals createdAt plus ttlMinutes minutes, so that
\* createdAt <= expiresAt holds for every row.
C27_TTLAndExpiry ==
  [][ClientCreateSucceeds =>
       /\ \E r \in sessions' \ sessions :
            /\ r.ID = loc[Client].id
            /\ r.TTLMinutes = IF loc[Client].reqttl > 0 THEN loc[Client].reqttl
                                                         ELSE DefaultTTLMinutes
            /\ r.ExpiresAt = r.CreatedAt + r.TTLMinutes
       /\ \A r \in sessions' : r.CreatedAt <= r.ExpiresAt]_vars

\* the API client issues GET /sessions/{id}
ClientCallsGet(id) ==
  /\ Resting(Client) /\ loc'[Client] # loc[Client]
  /\ loc'[Client].op = "get" /\ loc'[Client].id = id

\* C28: a request that addresses an unknown session id, GET /sessions/{id} as
\* well as DELETE /sessions/{id}, is answered with 404 and changes no row, no
\* pool entry and no container.
C28_UnknownIdNotFound ==
  [][\A id \in SessionIds :
       ((ClientCallsGet(id) \/ ClientCallsDelete(id)) /\ id \notin SessionIDsOf(sessions))
         => /\ pc'[Client] = "done"
            /\ HTTPStatus(loc'[Client].op, loc'[Client].res) = 404
            /\ UNCHANGED shared]_vars

\* C29: a create request with a missing or empty user_id is rejected with 400
\* before the engine is invoked. Every POST /sessions either enters
\* CreateSession with a user_id that is not empty, or is refused by
\* CreateSession for a user who has a row, or is answered 400 with no GPU
\* instance, port, container, workspace or row touched and no id drawn.
C29_EmptyUserRejected ==
  [][ClientCallsCreate =>
       \/ /\ pc'[Client] = "c_gpu" /\ loc'[Client].user \in Users
       \/ /\ pc'[Client] = "done" /\ loc'[Client].res = "err"
          /\ sessions # {}
       \/ /\ pc'[Client] = "done" /\ loc'[Client].res = "badrequest"
          /\ HTTPStatus(loc'[Client].op, loc'[Client].res) = 400
          /\ UNCHANGED <<shared, workspaces, nextId>>]_vars

\* a request without user_id was answered 400 right after a session had been
\* created, and that session stands untouched
C29_Witness ==
  /\ pc[Client] = "done" /\ loc[Client].op = "create" /\ loc[Client].res = "badrequest"
  /\ loc[Client].prev.op = "create" /\ loc[Client].prev.res = "ok"
  /\ \E r \in sessions :
       /\ r.ID = loc[Client].prev.id
       /\ migInstances[r.GPUUUID].InUse /\ r.SSHPort \in usedPorts
       /\ \E c \in containers : c.ID = r.ContainerID /\ c.Running

\* goroutine p takes a step of a DeleteSession, a DeleteAllSessions or a sweep
TeardownActs(p) ==
  /\ pc'[p] # pc[p]
  /\ \/ ~Resting(p) /\ loc[p].op \in {"delete", "deleteall", "sweep"}
     \/ pc'[p] \in TeardownLabels /\ loc'[p].op \in {"delete", "deleteall", "sweep"}

\* C30: session teardown (DeleteSession, DeleteAllSessions, reaper) leaves
\* every workspace directory and its contents unchanged, and a later
\* CreateSession for the same user reuses the directory: it keeps the user's
\* files and does not overwrite a shell init file that exists (it writes the
\* default one only where there is none), and it touches no other user's
\* directory.
C30_WorkspaceSurvives ==
  [][/\ \A p \in {Client, Reaper} : TeardownActs(p) => UNCHANGED workspaces
     /\ (pc[Client] = "c_ip" /\ pc'[Client] = "c_port")
          => /\ workspaces'[loc[Client].user].exists
             /\ workspaces'[loc[Client].user].files = workspaces[loc[Client].user].files
             /\ workspaces'[loc[Client].user].bashrc =
                  IF workspaces[loc[Client].user].bashrc = "none"
                    THEN "default" ELSE workspaces[loc[Client].user].bashrc
             /\ \A v \in Users \ {loc[Client].user} : workspaces'[v] = workspaces[v]]_vars

\* a user's earlier session is gone and a new CreateSession for the user has
\* passed the workspace step: the directory still holds the user's files and
\* the shell init file the user wrote
C30_Witness ==
  /\ pc[Client] = "c_port" /\ loc[Client].id > 1
  /\ workspaces[loc[Client].user] = [exists |-> TRUE, bashrc |-> "user", files |-> TRUE]
  /\ \A r \in sessions : r.UserID # loc[Client].user
  /\ \A c \in containers : c.Name # loc[Client].user

\* the labels of a CreateSession before store.CreateSession
BeforePersist == {"c_gpu", "c_ip", "c_port", "c_create", "c_start"}

\* caller w comes to store.CreateSession
ReachesPersist(w) == pc[w] # "c_persist" /\ pc'[w] = "c_persist"

ClientTearsDown(id) ==
  /\ pc[Client] \in TeardownLabels
  /\ loc[Client].op = "delete" /\ loc[Client].id = id

C33_AbsentContainer ==
  /\ \E id \in SessionIds : ClientTearsDown(id)
  /\ pc[Client] = "relgpu" /\ loc[Client].rport = 0 /\ externals = 1

\* a sweep deleted the row that a failed DeleteSession had left
C33_SweepAfterFailure ==
  /\ pc[Client] = "done" /\ loc[Client].op = "delete" /\ loc[Client].res = "err"
  /\ loc[Client].id \notin SessionIDsOf(sessions)
  /\ pc[Reaper] = "idle"

ClientAllocates == pc[Client] = "c_gpu" /\ pc'[Client] # "c_gpu"

\* C35: how CreateSession chooses the instance. The profile it works with is
\* the request's, and 3g.20gb when the request names neither profile nor
\* UUID. With a UUID the allocation succeeds exactly when that UUID is a known
\* free instance, whatever profile the request names, and takes that instance;
\* without one it succeeds exactly when a free instance of the profile exists
\* and takes such an instance. The row the call writes names the instance
\* taken and that instance's profile.
C35_SliceChoice ==
  [][ /\ (ClientCallsCreate /\ pc'[Client] = "c_gpu") =>
           loc'[Client].profile =
             IF loc'[Client].reqprofile = "" /\ loc'[Client].uuid = ""
               THEN "3g.20gb" ELSE loc'[Client].reqprofile
      /\ ClientAllocates =>
           IF loc[Client].uuid # ""
             THEN /\ pc'[Client] = "c_ip" <=>
                       (loc[Client].uuid \in GPUs /\ ~migInstances[loc[Client].uuid].InUse)
                  /\ pc'[Client] = "c_ip" => loc'[Client].gpu = loc[Client].uuid
             ELSE /\ pc'[Client] = "c_ip" <=> ~NoFreeSlice(loc[Client].profile)
                  /\ pc'[Client] = "c_ip" =>
                       /\ ProfileOf(loc'[Client].gpu) = loc[Client].profile
                       /\ ~migInstances[loc'[Client].gpu].InUse
      /\ (pc[Client] = "c_persist" /\ pc'[Client] = "done") =>
           \E r \in sessions' \ sessions :
             /\ r.ID = loc[Client].id
             /\ r.GPUUUID = loc[Client].gpu
             /\ r.MIGProfile = ProfileOf(loc[Client].gpu)
    ]_vars

\* a request that named a UUID together with a profile no instance has was
\* served: its row names that instance and the instance's own profile
C35_Witness ==
  /\ pc[Client] = "done" /\ loc[Client].op = "create" /\ loc[Client].res = "ok"
  /\ loc[Client].uuid \in GPUs /\ loc[Client].profile = DefaultProfile
  /\ \E r \in sessions :
       /\ r.ID = loc[Client].id /\ r.GPUUUID = loc[Client].uuid
       /\ r.MIGProfile = InstanceProfile /\ r.MIGProfile # loc[Client].profile

\* C36: AllocateMIG(profile, user). When a free instance of the profile
\* exists it returns one of them, which from then on is in use and held by
\* the user, every other instance as it was; when none exists it fails and
\* the pool is as it was.
C36_AllocateByProfile ==
  [][(ClientAllocates /\ loc[Client].uuid = "") =>
       LET free == {g \in GPUs : ~migInstances[g].InUse /\ ProfileOf(g) = loc[Client].profile}
       IN  IF free # {}
             THEN /\ pc'[Client] = "c_ip"
                  /\ loc'[Client].gpu \in free
                  /\ migInstances'[loc'[Client].gpu] =
                       [InUse |-> TRUE, CreatedBy |-> loc[Client].user]
                  /\ \A g \in GPUs \ {loc'[Client].gpu} : migInstances'[g] = migInstances[g]
             ELSE /\ pc'[Client] = "done" /\ loc'[Client].res = "err"
                  /\ migInstances' = migInstances
    ]_vars

\* an allocation by profile has just taken the free instance while the other
\* instance stays with the user who holds it
C36_Witness ==
  /\ pc[Client] = "c_ip" /\ loc[Client].uuid = ""
  /\ migInstances[loc[Client].gpu] = [InUse |-> TRUE, CreatedBy |-> loc[Client].user]
  /\ \E g \in GPUs \ {loc[Client].gpu} :
       migInstances[g].InUse /\ migInstances[g].CreatedBy # loc[Client].user

\* the sequential caller asks for the free instances
ClientCallsAvailable ==
  /\ Resting(Client) /\ loc'[Client] # loc[Client]
  /\ loc'[Client].op = "gpus"

\* C31: the snapshot behind GET /gpus/available. Its elements are, each once,
\* the instances that are free when the call is made, every element says
\* what the pool says of its instance, the count reported is the number of
\* free instances, and the call leaves the pool as it is.
C31_FreeSnapshot ==
  [][ClientCallsAvailable =>
       LET list == loc'[Client].snap
           free == {g \in GPUs : ~migInstances[g].InUse}
       IN  /\ {list[k].UUID : k \in 1 .. Len(list)} = free
           /\ \A i, j \in 1 .. Len(list) : i # j => list[i].UUID # list[j].UUID
           /\ \A k \in 1 .. Len(list) :
                /\ ~list[k].InUse /\ list[k].CreatedBy = ""
                /\ list[k].Profile = ProfileOf(list[k].UUID)
           /\ loc'[Client].count = Cardinality(free)
           /\ migInstances' = migInstances
    ]_vars

\* the caller holds a snapshot of one free instance, taken while the other
\* instance was held by a session
C31_Witness ==
  /\ pc[Client] = "done" /\ loc[Client].op = "gpus"
  /\ loc[Client].count = 1 /\ Len(loc[Client].snap) = 1
  /\ \E g \in GPUs : migInstances[g].InUse /\ loc[Client].snap[1].UUID # g
  /\ loc[Client].prev.op = "create" /\ loc[Client].prev.res = "ok"

\* the sequential caller's CreateSession leaves its address selection
\* without an injected failure
ClientSelectsIP == pc[Client] = "c_ip" /\ pc'[Client] # "c_ip" /\ faults' = faults

\* C37: findAvailableIP returns the lowest address of 10.100.0.100 to
\* 10.100.0.254 that the engine reports for no container of the bridge, and
\* fails when it reports every address of the range (the engine reports an
\* address for a container that is running)
C37_LowestFreeIP ==
  [][ClientSelectsIP =>
       LET assigned == {c.IP : c \in {d \in containers : d.Running}}
       IN  IF \A a \in 100 .. 254 : a \in assigned
             THEN pc'[Client] = "relgpu" /\ loc'[Client].ip = 0
             ELSE /\ pc'[Client] = "c_port"
                  /\ loc'[Client].ip \in (100 .. 254) \ assigned
                  /\ \A a \in 100 .. 254 : a < loc'[Client].ip => a \in assigned
    ]_vars

\* a CreateSession failed at the address selection with every address of the
\* range reported by a running container
C37_Witness ==
  /\ pc[Client] = "relgpu" /\ loc[Client].op = "create" /\ faults = 0
  /\ loc[Client].ip = 0 /\ loc[Client].port = 0
  /\ \A a \in IPRange : \E c \in containers : c.Running /\ c.IP = a

\* a CreateSession was given an address between two addresses in use
C37_GapFilled ==
  /\ pc[Client] = "c_port" /\ loc[Client].ip = IPRangeStart + 1
  /\ \E c \in containers : c.Running /\ c.IP = IPRangeStart
  /\ \E c \in containers : c.Running /\ c.IP = IPRangeStart + 2

\* a CreateSession was given the address of a stopped container
C37_StoppedReused ==
  /\ pc[Client] = "c_port"
  /\ \E c \in containers : ~c.Running /\ c.IP = loc[Client].ip

\* what is held in user u's name
RowsOf(u) == {r \in sessions : r.UserID = u}
InstancesOf(u) == {g \in GPUs : migInstances[g].InUse /\ migInstances[g].CreatedBy = u}
ContainersOf(u) == {c \in containers : c.Name = u}

\* C38: concurrent CreateSession calls for one user. Once every call has
\* returned, each user has at most one row; a user with a row holds exactly
\* one instance, one container of their name and the row's port, a user
\* without a row holds nothing, and no port is held besides the rows' ports:
\* a call that lost has given back everything it had reserved.
C38_DuplicateCreateLeavesOne ==
  (\A w \in Workers : Resting(w)) =>
    /\ \A u \in Users :
         /\ Cardinality(RowsOf(u)) <= 1
         /\ Cardinality(InstancesOf(u)) = Cardinality(RowsOf(u))
         /\ Cardinality(ContainersOf(u)) = Cardinality(RowsOf(u))
         /\ \A r \in RowsOf(u) :
              /\ r.GPUUUID \in InstancesOf(u)
              /\ \E c \in ContainersOf(u) : c.ID = r.ContainerID /\ c.Running
    /\ usedPorts = {r.SSHPort : r \in sessions}
    /\ Cardinality(usedPorts) = Cardinality(sessions)

\* both calls for the same user passed the existence check; one has returned
\* with the user's row, the other was refused the container name and is
\* giving back what it reserved
C38_Witness ==
  \E w \in Workers :
    /\ pc[w] = "relgpu" /\ loc[w].op = "create" /\ loc[w].cid = 0 /\ loc[w].port # 0
    /\ faults = 0
    /\ \E r \in sessions : r.UserID = loc[w].user /\ r.ID # loc[w].id
    /\ \A v \in Workers \ {w} : Resting(v)

\* both calls for the same user are under way, past the existence check
C38_BothPassed ==
  /\ \A w \in Workers : loc[w].op = "create" /\ pc[w] \in BeforePersist \cup {"c_persist"}
  /\ loc["w1"].user = loc["w2"].user

\* C39: the private key a successful CreateSession returns (the key pair is
\* named by the call's id, which is the id of the row) is the counterpart of
\* the public key in the image from which the session's container was
\* created, also when another CreateSession for the same user rebuilds the
\* tag gpu-workspace-<user> in between
C39_KeyMatchesImage ==
  \A r \in sessions :
    \A c \in containers : c.ID = r.ContainerID => c.Key = r.ID

\* C40: under any sequence of Start and Stop calls no call panics; whenever
\* the most recent call was Start exactly one goroutine is in watch(), and
\* whenever it was Stop none is, or the one that is has been told to return
\* (Stop does not wait for it)
C40_OneSweeperIffStarted ==
  /\ ~watcher.panicked
  /\ watcher.last = "start" => watcher.sweepers = 1
  /\ watcher.last = "stop" => (watcher.sweepers = 0 \/ (watcher.sweepers = 1 /\ watcher.closed))

\* the most recent call was Start, the watcher says it is running, and no
\* goroutine is left to sweep
C40_NoSweeperAfterRestart ==
  /\ watcher.last = "start" /\ watcher.running /\ watcher.sweepers = 0

\* a Stop after a Start after a Stop has closed the closed channel
C40_StopPanics == watcher.panicked

\* expired rows stay in the store with the watcher started and nobody to sweep
C40_ExpiredUnswept ==
  /\ C40_NoSweeperAfterRestart
  /\ ListExpiredSessions # {}

====
